---- MODULE Spec2Model ----
(***************************************************************************)
(* A model of the posts.json index generator (src/unnamed/part_000), of    *)
(* the blog-assistant widget (src/src/content/legal/privacy.md) and of the *)
(* Blog component (src/src/components/Blog.tsx).                           *)
(*                                                                         *)
(* The generator is one synchronous Node script: readdirSync, a loop over  *)
(* the sub-directories (existsSync, readFileSync, gray-matter, the         *)
(* truthiness test, push), writeFileSync, console.log.  An uncaught        *)
(* exception ends the process with exit code 1.  The process may be        *)
(* interrupted (killed) between any two steps.                             *)
(***************************************************************************)
EXTENDS Integers, Sequences, FiniteSets

\* ------------------------------------------------------------- bounds
\* Number of distinct entry names that may exist under the content root.
MaxUnits == 2
\* Number of runs of the generator in succession over one content tree.
MaxRuns == 2
\* Number of entries of the array the Blog component is given.
MaxEntries == 2
\* Number of requests the assistant sends to the completion API.
MaxRequests == 2

\* ------------------------------------------------------------- values
\* JavaScript values are tagged; a string is the sequence of its pieces, so
\* that concatenation (the url template) is sequence concatenation.
Str(s) == [t |-> "str", v |-> s]
Num(s) == [t |-> "num", v |-> s]
Undefined == [t |-> "undefined", v |-> <<>>]

EntryNames == <<"01-post", "02-draft", "03-empty", "04-assets">>
Slugs == {EntryNames[i] : i \in 1..MaxUnits}

\* Values a YAML front matter may give to title / summary: the empty string,
\* a non-empty string and, for the title, a number.
TitleVals == {Str(<<>>), Str(<<"A">>), Num(<<"42">>)}
SummaryVals == {Str(<<>>), Str(<<"B">>)}
UrlVals == {Str(<<"/custom">>)}
Bool(s) == [t |-> "bool", v |-> s]

\* data.<key> of a JavaScript object: undefined when the key is absent.
Get(obj, key) == IF key \in DOMAIN obj THEN obj[key] ELSE Undefined

\* JavaScript truthiness of a value, as used by `data.title && data.summary`.
Truthy(val) ==
    CASE val.t = "undefined" -> FALSE
      [] val.t = "str" -> val.v # <<>>
      [] val.t = "num" -> val.v # <<"0">>
      [] OTHER -> TRUE

\* Template-literal interpolation `${x}`: String(x).
TemplateString(val) ==
    CASE val.t = "undefined" -> <<"undefined">>
      [] OTHER -> val.v

\* ------------------------------------------------------------- file system
NoData == [k \in {} |-> Undefined]

\* The front matters over the keys title and summary: each key absent or
\* holding one of its values.
BaseFrontMatters ==
    { [k \in ks |-> IF k = "title" THEN tv ELSE sv] :
        ks \in SUBSET {"title", "summary"}, tv \in TitleVals, sv \in SummaryVals }

\* fm with a url key added.
WithUrl(fm, uv) == [k \in DOMAIN fm \cup {"url"} |-> IF k = "url" THEN uv ELSE fm[k]]

\* fm with the key `draft: true` added, one of the fields of the corpus that
\* the generator does not read.
WithDraft(fm) ==
    [k \in DOMAIN fm \cup {"draft"} |-> IF k = "draft" THEN Bool(<<"true">>) ELSE fm[k]]

\* The front matters that carry `draft: true`: one with a title and a
\* summary, one with a title only.
DraftFrontMatters ==
    { WithDraft(fm) :
        fm \in {f \in BaseFrontMatters :
                   /\ Get(f, "title") = Str(<<"A">>)
                   /\ Get(f, "summary") \in {Str(<<"B">>), Undefined}} }

\* What a front matter can hold: a base front matter, or one with a url key
\* of its own (on the front matters that pass the generator's test, and on
\* the empty one; elsewhere no url is emitted for the key to compete with),
\* or one with a draft key.
FrontMatters ==
    BaseFrontMatters
    \cup { WithUrl(fm, uv) :
             fm \in {f \in BaseFrontMatters :
                        f = NoData \/ (Truthy(Get(f, "title")) /\ Truthy(Get(f, "summary")))},
             uv \in UrlVals }
    \cup DraftFrontMatters

\* An entry under the content root.  kind "file": a plain file.  kind "dir":
\* a sub-directory, whose index.md is absent, unreadable (EACCES), has no
\* front matter block, has a malformed YAML block, or has a YAML mapping.
Entries ==
    { [kind |-> "file", index |-> "absent", data |-> NoData] }
    \cup { [kind |-> "dir", index |-> ix, data |-> NoData] :
             ix \in {"absent", "unreadable", "nofm", "malformed"} }
    \cup { [kind |-> "dir", index |-> "yaml", data |-> fm] : fm \in FrontMatters }

\* ------------------------------------------------------------- JSON text
\* JSON.stringify(posts, null, 2) as a sequence of tokens; a record is one
\* token that carries its members in insertion order.
TokOpen == [tok |-> "[", obj |-> NoData]
TokClose == [tok |-> "]", obj |-> NoData]
TokComma == [tok |-> ",", obj |-> NoData]
TokObj(o) == [tok |-> "{}", obj |-> o]

RECURSIVE StringifyItems(_)
StringifyItems(ps) ==
    IF ps = <<>> THEN <<>>
    ELSE IF Len(ps) = 1 THEN <<TokObj(ps[1])>>
    ELSE <<TokObj(ps[1]), TokComma>> \o StringifyItems(Tail(ps))

Stringify(ps) == <<TokOpen>> \o StringifyItems(ps) \o <<TokClose>>

\* JSON.parse of a token sequence: ok is FALSE on a syntax error (what
\* res.json() rejects with), value the array otherwise.
RECURSIVE ParseItems(_)
ParseItems(ts) ==
    IF Len(ts) = 1
    THEN [ok |-> ts[1].tok = "{}", value |-> IF ts[1].tok = "{}" THEN <<ts[1].obj>> ELSE <<>>]
    ELSE IF Len(ts) >= 3 /\ ts[1].tok = "{}" /\ ts[2].tok = ","
    THEN LET rest == ParseItems(SubSeq(ts, 3, Len(ts)))
         IN [ok |-> rest.ok, value |-> IF rest.ok THEN <<ts[1].obj>> \o rest.value ELSE <<>>]
    ELSE [ok |-> FALSE, value |-> <<>>]

Parse(ts) ==
    IF Len(ts) < 2 \/ ts[1].tok # "[" \/ ts[Len(ts)].tok # "]"
    THEN [ok |-> FALSE, value |-> <<>>]
    ELSE IF Len(ts) = 2 THEN [ok |-> TRUE, value |-> <<>>]
    ELSE ParseItems(SubSeq(ts, 2, Len(ts) - 1))

\* The committed public/posts.json of the repository: records keyed
\* titulo / resumen / url.
LegacyRecord ==
    [k \in {"titulo", "resumen", "url"} |->
        CASE k = "titulo" -> Str(<<"Rest API in C#">>)
          [] k = "resumen" -> Str(<<"In C#, there are two main options">>)
          [] OTHER -> Str(<<"/blog/", "02-api">>)]

\* ------------------------------------------------------------- state
VARIABLES
    rootExists,   \* whether postsDir exists
    entries,      \* postsDir's entries: name -> entry
    listing,      \* the order in which the file system enumerates postsDir
    prevFile,     \* outputFile as it was before the run
    outFile,      \* outputFile: [exists, bytes]
    pc,           \* position of the generator process
    folders,      \* const folders
    idx,          \* position of the for-of loop in folders
    posts,        \* let posts
    stdout,       \* what console.log printed (the counts)
    err,          \* the uncaught exception that ended the process, if any
    wLoaded,      \* widget: the load of posts.json: no, fetching, yes
    wPosts,       \* widget: let posts
    wPrompt,      \* widget: the post lines of the last prompt built
    modalActive,  \* widget: #aiModal has the class active
    apiKey,       \* widget: apiKeyInput.value
    userQuery,    \* widget: userQueryInput.value
    responseBox,  \* widget: responseBox.textContent
    nFetch,       \* widget: handlers awaiting fetch(completions)
    nBody,        \* widget: handlers awaiting res.json()
    wSent,        \* widget: requests sent so far (history)
    wLast,        \* widget: the last click on Search or Close (history)
    blogData,     \* Blog: the prop data
    filter,       \* Blog: signal filter, a Set of tags
    blogPosts,    \* Blog: signal posts, the entries displayed
    isFilterOpen, \* Blog: signal isFilterOpen
    searchQuery,  \* Blog: signal searchQuery
    sortBy,       \* Blog: signal sortBy
    blogLast      \* Blog: the handler that ran last (history)

fsVars == <<rootExists, entries, listing, prevFile>>
widgetVars == <<wLoaded, wPosts, wPrompt, modalActive, apiKey, userQuery,
                responseBox, nFetch, nBody, wSent, wLast>>
blogVars == <<blogData, filter, blogPosts, isFilterOpen, searchQuery, sortBy, blogLast>>
pageVars == <<widgetVars, blogVars>>

vars == <<rootExists, entries, listing, prevFile, outFile, pc, folders, idx,
          posts, stdout, err, pageVars>>

Absent == [exists |-> FALSE, bytes |-> <<>>]
File(bs) == [exists |-> TRUE, bytes |-> bs]

\* outputFile before the run: missing, or a complete artifact of an earlier
\* run (the committed file).
PrevFiles == {Absent, File(Stringify(<<LegacyRecord>>))}

\* All orders in which a directory may enumerate the names of S: the order
\* is the file system's, and stays the same while the directory is unchanged.
Orderings(S) ==
    { s \in [1..Cardinality(S) -> S] : \A i, j \in 1..Cardinality(S) : i # j => s[i] # s[j] }

\* The page of the assistant as the script leaves it when it has run: no
\* posts loaded, the modal closed, the inputs and the response box empty.
WidgetNotLoaded ==
    /\ wLoaded = "no"
    /\ wPosts = <<>>
    /\ wPrompt = <<>>
    /\ modalActive = FALSE
    /\ apiKey = <<>>
    /\ userQuery = <<>>
    /\ responseBox = <<>>
    /\ nFetch = 0
    /\ nBody = 0
    /\ wSent = 0
    /\ wLast = "none"

\* No Blog component is mounted (the generator runs at build time).
BlogNotMounted ==
    /\ blogData = <<>>
    /\ filter = {}
    /\ blogPosts = <<>>
    /\ isFilterOpen = FALSE
    /\ searchQuery = <<>>
    /\ sortBy = "date-desc"
    /\ blogLast = "none"

Init ==
    /\ rootExists \in BOOLEAN
    /\ \E names \in SUBSET Slugs :
          entries \in IF rootExists THEN [names -> Entries] ELSE {NoData}
    /\ listing \in Orderings(DOMAIN entries)
    /\ prevFile \in PrevFiles
    /\ outFile = prevFile
    /\ pc = "start"
    /\ folders = <<>>
    /\ idx = 1
    /\ posts = <<>>
    /\ stdout = <<>>
    /\ err = "none"
    /\ WidgetNotLoaded
    /\ BlogNotMounted

\* ------------------------------------------------------------- generator
\* .filter(f => f.isDirectory())
IsDirectory(name) == entries[name].kind = "dir"

\* fs.existsSync(postFile)
ExistsSync(folder) == entries[folder].index # "absent"

\* fs.readFileSync(postFile, 'utf-8') throws when the file cannot be read.
ReadFileThrows(folder) == entries[folder].index = "unreadable"

\* matter(content) throws (js-yaml's YAMLException) on a malformed block.
MatterThrows(folder) == entries[folder].index = "malformed"

\* const { data } = matter(content): {} when there is no front matter block.
Matter(folder) ==
    IF entries[folder].index = "yaml" THEN entries[folder].data ELSE NoData

\* Mutant of Accepts: the test forgets data.summary.
AcceptsTitleOnly(data) == Truthy(Get(data, "title"))

\* if (data.title && data.summary)
Accepts(data) == Truthy(Get(data, "title")) /\ Truthy(Get(data, "summary"))

\* Mutant of Url: a url key of the front matter overrides the directory name.
UrlFromFrontMatter(folder) ==
    IF "url" \in DOMAIN Matter(folder)
    THEN Matter(folder)["url"]
    ELSE Str(<<"/blog/", folder>>)

\* Mutant of Url: the directory name is left out of the url.
UrlWithoutName(folder) == Str(<<"/blog/">>)

\* const url = `/blog/${folder.name}`
Url(folder) == Str(<<"/blog/", folder>>)

\* Mutant of Post: title and summary are taken from each other's key.
PostSwapped(folder, data) ==
    [k \in {"title", "summary", "url"} |->
        CASE k = "title" -> Get(data, "summary")
          [] k = "summary" -> Get(data, "title")
          [] OTHER -> Url(folder)]

\* Mutant of Post: the whole front matter is copied into the record,
\* { ...data, url }.
PostSpread(folder, data) ==
    [k \in DOMAIN data \cup {"url"} |-> IF k = "url" THEN Url(folder) ELSE data[k]]

\* { title: data.title, summary: data.summary, url }.  JSON.stringify keeps
\* strings and finite numbers as they are.
Post(folder, data) ==
    [k \in {"title", "summary", "url"} |->
        CASE k = "title" -> Get(data, "title")
          [] k = "summary" -> Get(data, "summary")
          [] OTHER -> Url(folder)]

\* Mutant of Readdir: a missing directory is listed as an empty one.
ReaddirLenient ==
    /\ pc = "start"
    /\ folders' = SelectSeq(listing, IsDirectory)
    /\ pc' = "loop"
    /\ idx' = 1
    /\ posts' = <<>>
    /\ UNCHANGED <<fsVars, outFile, stdout, err, pageVars>>

\* Mutant of Readdir: the listing is sorted by name.
ReaddirSorted ==
    /\ pc = "start"
    /\ IF rootExists
       THEN /\ LET Keep(n) == n \in DOMAIN entries /\ IsDirectory(n)
               IN folders' = SelectSeq(EntryNames, Keep)
            /\ pc' = "loop"
            /\ UNCHANGED err
       ELSE /\ pc' = "threw"
            /\ err' = "ENOENT"
            /\ UNCHANGED folders
    /\ idx' = 1
    /\ posts' = <<>>
    /\ UNCHANGED <<fsVars, outFile, stdout, pageVars>>

\* Mutant of Readdir: each listing enumerates the directory in an order of
\* its own.
ReaddirAnyOrder ==
    /\ pc = "start"
    /\ IF rootExists
       THEN /\ folders' \in Orderings({n \in DOMAIN entries : IsDirectory(n)})
            /\ pc' = "loop"
            /\ UNCHANGED err
       ELSE /\ pc' = "threw"
            /\ err' = "ENOENT"
            /\ UNCHANGED folders
    /\ idx' = 1
    /\ posts' = <<>>
    /\ UNCHANGED <<fsVars, outFile, stdout, pageVars>>

\* fs.readdirSync(dir, { withFileTypes: true }).filter(...); let posts = [].
\* readdirSync lists the entries in the directory's enumeration order, and
\* throws ENOENT when dir does not exist.
Readdir ==
    /\ pc = "start"
    /\ IF rootExists
       THEN /\ folders' = SelectSeq(listing, IsDirectory)
            /\ pc' = "loop"
            /\ UNCHANGED err
       ELSE /\ pc' = "threw"
            /\ err' = "ENOENT"
            /\ UNCHANGED folders
    /\ idx' = 1
    /\ posts' = <<>>
    /\ UNCHANGED <<fsVars, outFile, stdout, pageVars>>

\* Mutant of LoopBody: no existsSync test; readFileSync throws ENOENT when
\* the sub-directory has no index.md.
LoopBodyNoExistsCheck ==
    /\ pc = "loop"
    /\ idx <= Len(folders)
    /\ LET folder == folders[idx] IN
         IF ~ExistsSync(folder)
         THEN /\ pc' = "threw"
              /\ err' = "ENOENT"
              /\ UNCHANGED <<idx, posts>>
         ELSE IF ReadFileThrows(folder)
         THEN /\ pc' = "threw"
              /\ err' = "EACCES"
              /\ UNCHANGED <<idx, posts>>
         ELSE IF MatterThrows(folder)
         THEN /\ pc' = "threw"
              /\ err' = "YAMLException"
              /\ UNCHANGED <<idx, posts>>
         ELSE /\ posts' = IF Accepts(Matter(folder))
                          THEN Append(posts, Post(folder, Matter(folder)))
                          ELSE posts
              /\ idx' = idx + 1
              /\ UNCHANGED <<pc, err>>
    /\ UNCHANGED <<fsVars, outFile, folders, stdout, pageVars>>

\* Mutant of LoopBody: the output file is rewritten inside the loop, after
\* each iteration.
LoopBodyIncremental ==
    /\ pc = "loop"
    /\ idx <= Len(folders)
    /\ LET folder == folders[idx] IN
         IF ~ExistsSync(folder)
         THEN /\ idx' = idx + 1
              /\ UNCHANGED <<pc, posts, err>>
         ELSE IF ReadFileThrows(folder)
         THEN /\ pc' = "threw"
              /\ err' = "EACCES"
              /\ UNCHANGED <<idx, posts>>
         ELSE IF MatterThrows(folder)
         THEN /\ pc' = "threw"
              /\ err' = "YAMLException"
              /\ UNCHANGED <<idx, posts>>
         ELSE /\ posts' = IF Accepts(Matter(folder))
                          THEN Append(posts, Post(folder, Matter(folder)))
                          ELSE posts
              /\ idx' = idx + 1
              /\ UNCHANGED <<pc, err>>
    /\ outFile' = File(Stringify(posts'))
    /\ UNCHANGED <<fsVars, folders, stdout, pageVars>>

\* One iteration of `for (const folder of folders)`.
LoopBody ==
    /\ pc = "loop"
    /\ idx <= Len(folders)
    /\ LET folder == folders[idx] IN
         IF ~ExistsSync(folder)
         THEN /\ idx' = idx + 1
              /\ UNCHANGED <<pc, posts, err>>
         ELSE IF ReadFileThrows(folder)
         THEN /\ pc' = "threw"
              /\ err' = "EACCES"
              /\ UNCHANGED <<idx, posts>>
         ELSE IF MatterThrows(folder)
         THEN /\ pc' = "threw"
              /\ err' = "YAMLException"
              /\ UNCHANGED <<idx, posts>>
         ELSE /\ posts' = IF Accepts(Matter(folder))
                          THEN Append(posts, Post(folder, Matter(folder)))
                          ELSE posts
              /\ idx' = idx + 1
              /\ UNCHANGED <<pc, err>>
    /\ UNCHANGED <<fsVars, outFile, folders, stdout, pageVars>>

\* Mutant of WriteOpen: a failed open is caught and the script goes on to
\* its console.log.
WriteOpenSwallow ==
    /\ pc = "loop"
    /\ idx > Len(folders)
    /\ \/ /\ outFile' = File(<<>>)
          /\ pc' = "writing"
          /\ UNCHANGED err
       \/ /\ pc' = "log"
          /\ err' = "EOPEN"
          /\ UNCHANGED outFile
    /\ UNCHANGED <<fsVars, folders, idx, posts, stdout, pageVars>>

\* fs.writeFileSync(outputFile, ...), first half: open with flag 'w'
\* (O_WRONLY | O_CREAT | O_TRUNC).  The open creates or truncates the file,
\* or throws when the path cannot be opened (missing parent directory,
\* permissions).
WriteOpen ==
    /\ pc = "loop"
    /\ idx > Len(folders)
    /\ \/ /\ outFile' = File(<<>>)
          /\ pc' = "writing"
          /\ UNCHANGED err
       \/ /\ pc' = "threw"
          /\ err' = "EOPEN"
          /\ UNCHANGED outFile
    /\ UNCHANGED <<fsVars, folders, idx, posts, stdout, pageVars>>

\* Mutant of WriteData: the records of the previous artifact are kept, and
\* the new ones are written after them.
WriteDataMerge ==
    /\ pc = "writing"
    /\ LET kept == IF prevFile.exists /\ Parse(prevFile.bytes).ok
                   THEN Parse(prevFile.bytes).value
                   ELSE <<>>
           text == Stringify(kept \o posts)
           done == Len(outFile.bytes)
       IN \E n \in 1..(Len(text) - done) :
            /\ outFile' = File(SubSeq(text, 1, done + n))
            /\ pc' = IF done + n = Len(text) THEN "log" ELSE "writing"
    /\ UNCHANGED <<fsVars, folders, idx, posts, stdout, err, pageVars>>

\* fs.writeFileSync, second half: the write loop; each writeSync may write
\* only a part of what is left.
WriteData ==
    /\ pc = "writing"
    /\ LET text == Stringify(posts)
           done == Len(outFile.bytes)
       IN \E n \in 1..(Len(text) - done) :
            /\ outFile' = File(SubSeq(text, 1, done + n))
            /\ pc' = IF done + n = Len(text) THEN "log" ELSE "writing"
    /\ UNCHANGED <<fsVars, folders, idx, posts, stdout, err, pageVars>>

\* Mutant of Log: the script also leaves a marker file, .indexed, under the
\* content root.
LogAndMarkRoot ==
    /\ pc = "log"
    /\ stdout' = Append(stdout, Len(posts))
    /\ pc' = "done"
    /\ entries' = [n \in DOMAIN entries \cup {".indexed"} |->
                      IF n = ".indexed"
                      THEN [kind |-> "file", index |-> "absent", data |-> NoData]
                      ELSE entries[n]]
    /\ listing' = IF ".indexed" \in DOMAIN entries THEN listing ELSE Append(listing, ".indexed")
    /\ UNCHANGED <<rootExists, prevFile, outFile, folders, idx, posts, err, pageVars>>

\* Mutant of Log: the message reports folders.length.
LogFolders ==
    /\ pc = "log"
    /\ stdout' = Append(stdout, Len(folders))
    /\ pc' = "done"
    /\ UNCHANGED <<fsVars, outFile, folders, idx, posts, err, pageVars>>

\* console.log(`... generated with ${posts.length} posts`)
Log ==
    /\ pc = "log"
    /\ stdout' = Append(stdout, Len(posts))
    /\ pc' = "done"
    /\ UNCHANGED <<fsVars, outFile, folders, idx, posts, err, pageVars>>

\* The process is interrupted (SIGKILL) before its next step.
Kill ==
    /\ pc \in {"start", "loop", "writing", "log"}
    /\ pc' = "killed"
    /\ UNCHANGED <<fsVars, outFile, folders, idx, posts, stdout, err, pageVars>>

Terminated == pc \in {"done", "threw", "killed"}

\* The process's exit status: 0 when the script ran to its end, 1 on an
\* uncaught exception, 137 when killed, -1 while it runs.
ExitCode ==
    CASE pc = "done" -> 0
      [] pc = "threw" -> 1
      [] pc = "killed" -> 137
      [] OTHER -> -1

Next ==
    \/ Readdir
    \/ LoopBody
    \/ WriteOpen
    \/ WriteData
    \/ Log
    \/ Kill

Spec == Init /\ [][Next]_vars

\* ------------------------------------------------------------- runs in succession
\* The script is started again after a run that ended with exit 0, over the
\* same content tree: a new process, with the module-level constants and
\* locals fresh, the output file as the last run left it, and the terminal
\* keeping what was printed.
Rerun ==
    /\ pc = "done"
    /\ Len(stdout) < MaxRuns
    /\ prevFile' = outFile
    /\ pc' = "start"
    /\ folders' = <<>>
    /\ idx' = 1
    /\ posts' = <<>>
    /\ UNCHANGED <<rootExists, entries, listing, outFile, stdout, err, pageVars>>

NextTwice ==
    \/ Readdir
    \/ LoopBody
    \/ WriteOpen
    \/ WriteData
    \/ Log
    \/ Rerun

SpecTwice == Init /\ [][NextTwice]_vars

\* ------------------------------------------------------------- Blog component
\* src/src/components/Blog.tsx.  A string is the sequence of its characters.
Chars == {"a", "A", "b", "B"}

\* String.prototype.toLowerCase
LowerChar(c) == CASE c = "A" -> "a" [] c = "B" -> "b" [] OTHER -> c
toLowerCase(str) == [i \in 1..Len(str) |-> LowerChar(str[i])]

\* String.prototype.includes
includes(str, sub) ==
    \E i \in 0..(Len(str) - Len(sub)) : SubSeq(str, i + 1, i + Len(sub)) = sub

\* String.prototype.localeCompare: the letters decide first, whatever their
\* case; between strings with the same letters, lower case sorts first.
Primary(c) == IF LowerChar(c) = "a" THEN 1 ELSE 2
Tertiary(c) == IF c = LowerChar(c) THEN 0 ELSE 1
RECURSIVE CompareKeys(_, _)
CompareKeys(a, b) ==
    IF a = <<>> /\ b = <<>> THEN 0
    ELSE IF a = <<>> THEN -1
    ELSE IF b = <<>> THEN 1
    ELSE IF Head(a) < Head(b) THEN -1
    ELSE IF Head(a) > Head(b) THEN 1
    ELSE CompareKeys(Tail(a), Tail(b))
PrimaryKeys(str) == [i \in 1..Len(str) |-> Primary(str[i])]
TertiaryKeys(str) == [i \in 1..Len(str) |-> Tertiary(str[i])]
localeCompare(a, b) ==
    IF CompareKeys(PrimaryKeys(a), PrimaryKeys(b)) # 0
    THEN CompareKeys(PrimaryKeys(a), PrimaryKeys(b))
    ELSE CompareKeys(TertiaryKeys(a), TertiaryKeys(b))

\* The entries of the blog collection a page may pass: slug, and data with
\* title, summary (optional), tags and date (as getTime()).
BlogEntry(slug, title, summary, tgs, date) ==
    [slug |-> slug, title |-> title, summary |-> summary, tags |-> tgs, date |-> date]
BlogEntries ==
    << BlogEntry("p1", <<"A", "b">>, Str(<<"b", "a">>), << <<"A">> >>, 2),
       BlogEntry("p2", <<"b">>, Undefined, << <<"a">>, <<"b">> >>, 1),
       BlogEntry("p3", <<"a">>, Str(<<"B">>), <<>>, 2),
       BlogEntry("p4", <<"B", "a">>, Str(<<>>), << <<"B">> >>, 3) >>

\* The prop tags, the values of the search box and the sort options.
tags == << <<"a">>, <<"B">>, <<"A">> >>
Queries == {<<>>, <<"a">>, <<"B">>, <<"b", "a">>}
SortOptions == {"date-desc", "date-asc", "title-asc", "title-desc"}

\* The arrays data can be: up to MaxEntries different entries, in any order.
DataArrays ==
    UNION { { d \in [1..n -> {BlogEntries[i] : i \in 1..Len(BlogEntries)}] :
                \A i, j \in 1..n : i # j => d[i] # d[j] } : n \in 0..MaxEntries }

\* Mutant of tagMatch: one selected tag is enough (some in place of every).
tagMatchAny(entry, flt) ==
    \/ flt = {}
    \/ \E value \in flt :
          \E i \in 1..Len(entry.tags) :
              toLowerCase(entry.tags[i]) = toLowerCase(value)

\* The callback of data.filter.
tagMatch(entry, flt) ==
    \A value \in flt :
        \E i \in 1..Len(entry.tags) :
            toLowerCase(entry.tags[i]) = toLowerCase(value)
searchMatch(entry, query) ==
    LET searchLower == toLowerCase(query)
    IN \/ searchLower = <<>>
       \/ includes(toLowerCase(entry.title), searchLower)
       \/ (entry.summary.t = "str" /\ includes(toLowerCase(entry.summary.v), searchLower))
       \/ \E i \in 1..Len(entry.tags) : includes(toLowerCase(entry.tags[i]), searchLower)

\* The comparator of the sort.
compare(a, b, by) ==
    CASE by = "date-desc" -> b.date - a.date
      [] by = "date-asc" -> a.date - b.date
      [] by = "title-asc" -> localeCompare(a.title, b.title)
      [] by = "title-desc" -> localeCompare(b.title, a.title)
      [] OTHER -> 0

\* Array.prototype.sort on a copy: a stable sort.  x goes after every element
\* that does not compare greater than it.
RECURSIVE InsertSorted(_, _, _)
InsertSorted(sorted, x, by) ==
    IF sorted = <<>> THEN <<x>>
    ELSE IF compare(Head(sorted), x, by) <= 0
    THEN <<Head(sorted)>> \o InsertSorted(Tail(sorted), x, by)
    ELSE <<x>> \o sorted
RECURSIVE SortedCopy(_, _)
SortedCopy(arr, by) ==
    IF arr = <<>> THEN <<>>
    ELSE InsertSorted(SortedCopy(SubSeq(arr, 1, Len(arr) - 1), by), arr[Len(arr)], by)

\* The body of createEffect: filter, sort a copy, setPosts.
Effect(d, flt, query, by) ==
    LET Keep(entry) == tagMatch(entry, flt) /\ searchMatch(entry, query)
    IN SortedCopy(SelectSeq(d, Keep), by)

\* Mutant of ToggleSet: a tag that is present stays.
ToggleSetAddOnly(prev, tag) == prev \cup {tag}

\* new Set(prev.has(tag) ? [...prev].filter((t) => t !== tag) : [...prev, tag])
ToggleSet(prev, tag) ==
    IF tag \in prev THEN {t \in prev : t # tag} ELSE prev \cup {tag}

\* The generator and the assistant play no part in the Blog component.
GeneratorNotRun ==
    /\ rootExists = FALSE
    /\ entries = NoData
    /\ listing = <<>>
    /\ prevFile = Absent
    /\ outFile = Absent
    /\ pc = "start"
    /\ folders = <<>>
    /\ idx = 1
    /\ posts = <<>>
    /\ stdout = <<>>
    /\ err = "none"

\* Blog({ data, tags }): the signals' initial values, and the first run of
\* the effect.
InitBlog ==
    /\ GeneratorNotRun
    /\ WidgetNotLoaded
    /\ blogData \in DataArrays
    /\ filter = {}
    /\ isFilterOpen = FALSE
    /\ searchQuery = <<>>
    /\ sortBy = "date-desc"
    /\ blogPosts = Effect(blogData, {}, <<>>, "date-desc")
    /\ blogLast = "none"

generatorVars == <<fsVars, outFile, pc, folders, idx, posts, stdout, err>>

\* onClick={() => toggleTag(tag)}, for a tag of the prop tags; the effect
\* runs again.
toggleTag(tag) ==
    /\ blogLast' = "toggleTag"
    /\ filter' = ToggleSet(filter, tag)
    /\ blogPosts' = Effect(blogData, filter', searchQuery, sortBy)
    /\ UNCHANGED <<generatorVars, widgetVars, blogData, isFilterOpen, searchQuery, sortBy>>

\* onClick={toggleFilterMenu}
toggleFilterMenu ==
    /\ blogLast' = "toggleFilterMenu"
    /\ isFilterOpen' = ~isFilterOpen
    /\ UNCHANGED <<generatorVars, widgetVars, blogData, filter, blogPosts, searchQuery, sortBy>>

\* Mutant of clearAllFilters: the search query is left as it is.
clearAllFiltersKeepQuery ==
    /\ blogLast' = "clearAllFilters"
    /\ filter # {} \/ (blogPosts = <<>> /\ searchQuery # <<>>)
    /\ filter' = {}
    /\ blogPosts' = Effect(blogData, filter', searchQuery, sortBy)
    /\ UNCHANGED <<generatorVars, widgetVars, blogData, isFilterOpen, searchQuery, sortBy>>

\* onClick={clearAllFilters}: its buttons are rendered when a tag is selected
\* or, in place of an empty list, when a tag is selected or the query is not
\* empty.  The effect runs again.
clearAllFilters ==
    /\ blogLast' = "clearAllFilters"
    /\ filter # {} \/ (blogPosts = <<>> /\ searchQuery # <<>>)
    /\ filter' = {}
    /\ searchQuery' = <<>>
    /\ blogPosts' = Effect(blogData, filter', searchQuery', sortBy)
    /\ UNCHANGED <<generatorVars, widgetVars, blogData, isFilterOpen, sortBy>>

\* onInput={handleSearchInput}
handleSearchInput(value) ==
    /\ blogLast' = "handleSearchInput"
    /\ searchQuery' = value
    /\ blogPosts' = Effect(blogData, filter, searchQuery', sortBy)
    /\ UNCHANGED <<generatorVars, widgetVars, blogData, filter, isFilterOpen, sortBy>>

\* onClick={() => setSearchQuery("")}, rendered when the query is not empty.
clearSearch ==
    /\ blogLast' = "clearSearch"
    /\ searchQuery # <<>>
    /\ searchQuery' = <<>>
    /\ blogPosts' = Effect(blogData, filter, searchQuery', sortBy)
    /\ UNCHANGED <<generatorVars, widgetVars, blogData, filter, isFilterOpen, sortBy>>

\* Mutant of handleSortChange: the array data itself is sorted, in place.
handleSortChangeInPlace(value) ==
    /\ blogLast' = "handleSortChange"
    /\ sortBy' = value
    /\ blogData' = SortedCopy(blogData, value)
    /\ blogPosts' = Effect(blogData', filter, searchQuery, sortBy')
    /\ UNCHANGED <<generatorVars, widgetVars, filter, isFilterOpen, searchQuery>>

\* onChange={handleSortChange}
handleSortChange(value) ==
    /\ blogLast' = "handleSortChange"
    /\ sortBy' = value
    /\ blogPosts' = Effect(blogData, filter, searchQuery, sortBy')
    /\ UNCHANGED <<generatorVars, widgetVars, blogData, filter, isFilterOpen, searchQuery>>

ToggleTagClick == \E i \in 1..Len(tags) : toggleTag(tags[i])
SearchInput == \E value \in Queries : handleSearchInput(value)
SortChange == \E value \in SortOptions : handleSortChange(value)

NextBlog ==
    \/ ToggleTagClick
    \/ toggleFilterMenu
    \/ clearAllFilters
    \/ SearchInput
    \/ clearSearch
    \/ SortChange

SpecBlog == InitBlog /\ [][NextBlog]_vars

\* ------------------------------------------------------------- assistant
\* The assistant widget is one inline script: a DOMContentLoaded handler that
\* loads posts.json, and click handlers on the open, close and Search
\* buttons.  The Search handler is async: it runs to its first await, and
\* its continuations run when fetch and res.json() settle, in between
\* whatever the user does meanwhile.

\* One `- "${p.titulo}": ${p.resumen} (${location.origin}${p.url})` line.
PostLine(p) ==
    <<"- \"">> \o TemplateString(Get(p, "titulo")) \o <<"\": ">>
      \o TemplateString(Get(p, "resumen")) \o <<" (", "origin">>
      \o TemplateString(Get(p, "url")) \o <<")">>

\* What the user may have in the API key field and in the question field:
\* nothing, white space only, text, text with white space around it.
KeyVals == {<<>>, <<" ">>, <<"k">>}
QueryVals == {<<>>, <<" ", " ">>, <<" ", "q", " ">>}

\* The text of the response box is the sequence of its pieces, so that a
\* template literal and `+` are sequence concatenation; the empty text is
\* <<>>.  Thinking is what the Search handler writes before it sends the
\* request; the three dots stand for the source's single ellipsis character.
Thinking == <<"Thinking...">>

\* Mutant of trim: the string is left as it is.
TrimNothing(s) == s

\* String.prototype.trim: the white space at both ends is removed.
RECURSIVE trim(_)
trim(s) ==
    IF s = <<>> THEN <<>>
    ELSE IF Head(s) = " " THEN trim(Tail(s))
    ELSE IF s[Len(s)] = " " THEN trim(SubSeq(s, 1, Len(s) - 1))
    ELSE s

\* A front matter with a title and a summary, and the site the generator
\* builds from k units that hold it: the run has ended with exit 0 and
\* posts.json holds its k records.
PlainFrontMatter == [k \in {"title", "summary"} |-> IF k = "title" THEN Str(<<"A">>) ELSE Str(<<"B">>)]
GeneratorDone(k) ==
    /\ rootExists = TRUE
    /\ entries = [n \in {EntryNames[i] : i \in 1..k} |->
                     [kind |-> "dir", index |-> "yaml", data |-> PlainFrontMatter]]
    /\ listing = [i \in 1..k |-> EntryNames[i]]
    /\ prevFile = Absent
    /\ folders = listing
    /\ idx = k + 1
    /\ posts = [i \in 1..k |-> Post(EntryNames[i], PlainFrontMatter)]
    /\ outFile = File(Stringify(posts))
    /\ stdout = <<k>>
    /\ err = "none"
    /\ pc = "done"

\* The site as committed: the generator has not run, and posts.json is the
\* committed file, or is missing.
SiteAsCommitted ==
    /\ rootExists = FALSE
    /\ entries = NoData
    /\ listing = <<>>
    /\ prevFile \in PrevFiles
    /\ outFile = prevFile
    /\ pc = "start"
    /\ folders = <<>>
    /\ idx = 1
    /\ posts = <<>>
    /\ stdout = <<>>
    /\ err = "none"

\* The page when its script has run: `let posts = []`, the modal without
\* the class active, empty fields and an empty response box.
InitWidget ==
    /\ SiteAsCommitted \/ \E k \in 0..MaxUnits : GeneratorDone(k)
    /\ WidgetNotLoaded
    /\ BlogNotMounted

\* window 'DOMContentLoaded': the handler runs to `await fetch('/posts.json')`.
DOMContentLoaded ==
    /\ wLoaded = "no"
    /\ wLoaded' = "fetching"
    /\ UNCHANGED <<generatorVars, blogVars, wPosts, wPrompt, modalActive, apiKey,
                   userQuery, responseBox, nFetch, nBody, wSent, wLast>>

\* The load settles: posts = await res.json().  A missing file (the 404
\* page) or a body that is not JSON rejects, and the catch leaves posts as
\* it is.
PostsLoaded ==
    /\ wLoaded = "fetching"
    /\ wLoaded' = "yes"
    /\ wPosts' = IF outFile.exists /\ Parse(outFile.bytes).ok
                 THEN Parse(outFile.bytes).value
                 ELSE wPosts
    /\ UNCHANGED <<generatorVars, blogVars, wPrompt, modalActive, apiKey,
                   userQuery, responseBox, nFetch, nBody, wSent, wLast>>

\* openBtn 'click': modal.classList.add("active").  The user clicks on the
\* page once the document is loaded.
OpenClick ==
    /\ wLoaded # "no"
    /\ modalActive' = TRUE
    /\ UNCHANGED <<generatorVars, blogVars, wLoaded, wPosts, wPrompt, apiKey,
                   userQuery, responseBox, nFetch, nBody, wSent, wLast>>

\* closeBtn 'click': the class active is removed, the response box and the
\* question field are cleared.  The button is inside the modal, which is
\* displayed only with the class active.
CloseClick ==
    /\ modalActive
    /\ modalActive' = FALSE
    /\ responseBox' = <<>>
    /\ userQuery' = <<>>
    /\ wLast' = "close"
    /\ UNCHANGED <<generatorVars, blogVars, wLoaded, wPosts, wPrompt, apiKey,
                   nFetch, nBody, wSent>>

\* The user edits the API key field (inside the modal).
TypeApiKey ==
    /\ modalActive
    /\ \E v \in KeyVals : apiKey' = v
    /\ UNCHANGED <<generatorVars, blogVars, wLoaded, wPosts, wPrompt, modalActive,
                   userQuery, responseBox, nFetch, nBody, wSent, wLast>>

\* The user edits the question field (inside the modal).
TypeQuery ==
    /\ modalActive
    /\ \E v \in QueryVals : userQuery' = v
    /\ UNCHANGED <<generatorVars, blogVars, wLoaded, wPosts, wPrompt, modalActive,
                   apiKey, responseBox, nFetch, nBody, wSent, wLast>>

\* askBtn 'click', up to its first await: with an empty trimmed key or
\* question the handler alerts and returns; otherwise it writes Thinking,
\* builds the prompt from posts and starts the request.
AskClick ==
    /\ modalActive
    /\ wSent < MaxRequests
    /\ IF trim(apiKey) = <<>> \/ trim(userQuery) = <<>>
       THEN /\ wLast' = "alert"
            /\ UNCHANGED <<responseBox, wPrompt, nFetch, wSent>>
       ELSE /\ responseBox' = Thinking
            /\ wPrompt' = [i \in 1..Len(wPosts) |-> PostLine(wPosts[i])]
            /\ nFetch' = nFetch + 1
            /\ wSent' = wSent + 1
            /\ wLast' = "ask"
    /\ UNCHANGED <<generatorVars, blogVars, wLoaded, wPosts, modalActive, apiKey,
                   userQuery, nBody>>

\* `await fetch(...)` of one handler settles: a network failure rejects, and
\* the catch writes the error; a response (of any status) resumes the
\* handler, which goes on to `await res.json()`.
FetchSettles ==
    /\ nFetch > 0
    /\ nFetch' = nFetch - 1
    /\ \/ /\ responseBox' = <<"Error calling API: ">> \o <<"Failed to fetch">>
          /\ nBody' = nBody
       \/ /\ nBody' = nBody + 1
          /\ responseBox' = responseBox
    /\ UNCHANGED <<generatorVars, blogVars, wLoaded, wPosts, wPrompt, modalActive,
                   apiKey, userQuery, wSent, wLast>>

\* The responses of the API: a completion, a completion without content, a
\* success whose body is not JSON, an error with the API's error object, an
\* error whose body is not JSON (a proxy's page), an error whose JSON has no
\* error object.
ResponseKinds == {"ok content", "ok no content", "ok not json",
                  "error object", "error not json", "error no object"}

\* What the handler writes into the response box when res.json() settles:
\* the content or "No answer received.", `Error ${res.status}:
\* ${err.error.message}`, or, from the catch, "Error calling API: " +
\* err.message (res.json() rejects on a body that is not JSON; reading
\* err.error.message throws when there is no error object).
ResponseText(kind) ==
    CASE kind = "ok content" -> <<"answer">>
      [] kind = "ok no content" -> <<"No answer received.">>
      [] kind = "error object" -> <<"Error ", "401", ": ", "Incorrect API key">>
      [] kind = "ok not json" -> <<"Error calling API: ">> \o <<"Unexpected token">>
      [] kind = "error not json" -> <<"Error calling API: ">> \o <<"Unexpected token">>
      [] OTHER -> <<"Error calling API: ">> \o <<"Cannot read properties of undefined">>

\* Mutant of BodySettles: the error branch has no catch around it, and a
\* body that res.json() cannot read ends the handler with nothing written.
BodySettlesUncaught ==
    /\ nBody > 0
    /\ nBody' = nBody - 1
    /\ \E kind \in ResponseKinds :
          responseBox' = IF kind \in {"error not json", "error no object"}
                         THEN responseBox
                         ELSE ResponseText(kind)
    /\ UNCHANGED <<generatorVars, blogVars, wLoaded, wPosts, wPrompt, modalActive,
                   apiKey, userQuery, nFetch, wSent, wLast>>

\* `await res.json()` of one handler settles, and the handler writes the
\* outcome into the response box.
BodySettles ==
    /\ nBody > 0
    /\ nBody' = nBody - 1
    /\ \E kind \in ResponseKinds : responseBox' = ResponseText(kind)
    /\ UNCHANGED <<generatorVars, blogVars, wLoaded, wPosts, wPrompt, modalActive,
                   apiKey, userQuery, nFetch, wSent, wLast>>

NextWidget ==
    \/ DOMContentLoaded
    \/ PostsLoaded
    \/ OpenClick
    \/ CloseClick
    \/ TypeApiKey
    \/ TypeQuery
    \/ AskClick
    \/ FetchSettles
    \/ BodySettles

SpecWidget == InitWidget /\ [][NextWidget]_vars

\* The requests of the assistant settle: a pending fetch and a pending
\* res.json() are not left pending for ever.
SpecWidgetSettling ==
    InitWidget /\ [][NextWidget]_vars /\ WF_vars(FetchSettles) /\ WF_vars(BodySettles)

\* ------------------------------------------------------------- properties
\* The vocabulary of the claims.
NonEmptyString(val) == val.t = "str" /\ val.v # <<>>

\* The url the specification gives the unit of directory S.
ExpectedUrl(S) == Str(<<"/blog/", S>>)

\* The output file holds a complete JSON array, and the array it holds.
ArtifactOk == outFile.exists /\ Parse(outFile.bytes).ok
Artifact ==
    LET parsed == Parse(outFile.bytes)
    IN IF outFile.exists /\ parsed.ok THEN parsed.value ELSE <<>>

\* The records of the array art, and of the artifact, for directory S.
RecordsIn(art, S) == {i \in 1..Len(art) : Get(art[i], "url") = ExpectedUrl(S)}
RecordsFor(S) == RecordsIn(Artifact, S)

\* The front matter of S's index.md, empty when there is no front matter.
FrontMatterOf(S) == IF entries[S].index = "yaml" THEN entries[S].data ELSE NoData

HasDocument(S) == entries[S].kind = "dir" /\ entries[S].index # "absent"

\* S is a sub-directory whose index.md has a non-empty title and a non-empty
\* summary, both strings.
ValidUnit(S) ==
    /\ entries[S].kind = "dir"
    /\ entries[S].index = "yaml"
    /\ NonEmptyString(Get(entries[S].data, "title"))
    /\ NonEmptyString(Get(entries[S].data, "summary"))

\* S is a sub-directory with no index.md, or whose front matter lacks title
\* or summary or holds the empty string for one of them.
ExcludedUnit(S) ==
    /\ entries[S].kind = "dir"
    /\ \/ entries[S].index = "absent"
       \/ /\ entries[S].index \in {"nofm", "yaml"}
          /\ \/ "title" \notin DOMAIN FrontMatterOf(S)
             \/ "summary" \notin DOMAIN FrontMatterOf(S)
             \/ Get(FrontMatterOf(S), "title") = Str(<<>>)
             \/ Get(FrontMatterOf(S), "summary") = Str(<<>>)

\* C1 (P1, completeness): after a successful run every sub-directory whose
\* index.md has a non-empty title and a non-empty summary has exactly one
\* record in the artifact, with that title and that summary.
C1_Completeness ==
    pc = "done" =>
        /\ ArtifactOk
        /\ LET art == Artifact IN
             \A S \in DOMAIN entries :
               ValidUnit(S) =>
                 /\ Cardinality(RecordsIn(art, S)) = 1
                 /\ \A i \in RecordsIn(art, S) :
                       /\ Get(art[i], "title") = entries[S].data["title"]
                       /\ Get(art[i], "summary") = entries[S].data["summary"]

\* A successful run over two valid units (and so two records).
C1_Witness ==
    /\ pc = "done"
    /\ Cardinality({S \in DOMAIN entries : ValidUnit(S)}) = 2
    /\ Len(Artifact) = 2

\* C2 (P2, exclusion): after a successful run the artifact holds no record
\* for a sub-directory without index.md, or whose front matter lacks title
\* or summary, or has the empty string for either.
C2_Exclusion ==
    pc = "done" =>
        LET art == Artifact IN
          \A S \in DOMAIN entries : ExcludedUnit(S) => RecordsIn(art, S) = {}

\* A successful run that excluded a unit with a title and no summary, and
\* wrote the record of another unit.
C2_Witness ==
    /\ pc = "done"
    /\ Len(Artifact) = 1
    /\ \E S \in DOMAIN entries :
          /\ ExcludedUnit(S)
          /\ entries[S].index = "yaml"
          /\ NonEmptyString(Get(entries[S].data, "title"))
          /\ "summary" \notin DOMAIN entries[S].data

\* C3 (record invariant), as claimed: every record of the artifact of a
\* successful run has a title and a summary that are non-empty strings.
\* Fails: `data.title && data.summary` is a truthiness test, and a number
\* such as 42 passes it.
C3_RecordsHoldNonEmptyStrings ==
    pc = "done" =>
        \A i \in 1..Len(Artifact) :
            /\ NonEmptyString(Get(Artifact[i], "title"))
            /\ NonEmptyString(Get(Artifact[i], "summary"))

\* The folders the loop has gone through and emitted a record for, in order.
PassesTest(f) == HasDocument(f) /\ Accepts(FrontMatterOf(f))
EmittedFolders == SelectSeq(SubSeq(folders, 1, idx - 1), PassesTest)

\* C4 (P3, url determinism): the k-th record emitted is for the k-th folder
\* that passed the test, and its url is "/blog/" followed by that folder's
\* name, whatever url key the front matter holds.
C4_UrlDeterminism ==
    pc \in {"loop", "writing", "log", "done"} =>
        LET emitted == EmittedFolders IN
          /\ Len(posts) = Len(emitted)
          /\ \A k \in 1..Len(posts) :
                posts[k]["url"] = Str(<<"/blog/", emitted[k]>>)

\* A successful run that emitted a record for a unit whose front matter has
\* a url key of its own, different from the emitted url.
C4_Witness ==
    /\ pc = "done"
    /\ \E k \in 1..Len(posts) :
          /\ k <= Len(EmittedFolders)
          /\ "url" \in DOMAIN FrontMatterOf(EmittedFolders[k])
          /\ FrontMatterOf(EmittedFolders[k])["url"] # posts[k]["url"]
          /\ Get(Artifact[k], "url") = ExpectedUrl(EmittedFolders[k])

\* C5 (P6, fatal path): when the content root does not exist the run never
\* gets past the directory listing, ends with a non-zero exit status, leaves
\* the output file as it was and prints no success message.
C5_MissingRootIsFatal ==
    ~rootExists =>
        /\ pc \in {"start", "threw", "killed"}
        /\ Terminated => ExitCode # 0
        /\ outFile = prevFile
        /\ stdout = <<>>

\* The listing of a missing root threw, with an earlier artifact in place.
C5_Witness ==
    /\ ~rootExists
    /\ pc = "threw"
    /\ err = "ENOENT"
    /\ ExitCode = 1
    /\ prevFile.exists
    /\ outFile = prevFile

\* The run ended on its own (it was not killed) and neither the root was
\* missing nor the output path unwritable.
EndedWithUsableRootAndOutput ==
    /\ pc \in {"done", "threw"}
    /\ rootExists
    /\ err \notin {"ENOENT", "EOPEN"}

\* C6 (unreadable document), as claimed: a run over a root with an
\* unreadable index.md (and no malformed front matter) completes.  Fails:
\* readFileSync throws EACCES, nothing catches it, and the run aborts before
\* anything is written.
C6_UnreadableUnitIsDropped ==
    ( /\ EndedWithUsableRootAndOutput
      /\ \E S \in DOMAIN entries : entries[S].index = "unreadable"
      /\ \A S \in DOMAIN entries : entries[S].index # "malformed" )
    => /\ pc = "done"
       /\ ArtifactOk

\* C7 (absent or unparseable front matter), as claimed: a run over a root
\* with a document whose front matter is absent or malformed (and no
\* unreadable document) completes, without a record for that unit.  Fails
\* for the malformed block: matter() throws and the run aborts.
C7_BadFrontMatterIsDropped ==
    ( /\ EndedWithUsableRootAndOutput
      /\ \E S \in DOMAIN entries : entries[S].index \in {"nofm", "malformed"}
      /\ \A S \in DOMAIN entries : entries[S].index # "unreadable" )
    => /\ pc = "done"
       /\ ArtifactOk
       /\ \A S \in DOMAIN entries :
             entries[S].index \in {"nofm", "malformed"} => RecordsFor(S) = {}

\* C8 (no partial artifact), as claimed: at every point of a run the output
\* file is the previous artifact or the complete new one.  Fails:
\* writeFileSync truncates the file and then writes it, in place.
C8_NoPartialArtifactVisible ==
    \/ outFile = prevFile
    \/ outFile = File(Stringify(posts))

\* The post line the wire contract promises for record p.
ExpectedLine(p) ==
    <<"- \"">> \o TemplateString(Get(p, "title")) \o <<"\": ">>
      \o TemplateString(Get(p, "summary")) \o <<" (", "origin">>
      \o TemplateString(Get(p, "url")) \o <<")">>

\* C9 (wire contract), as claimed: the assistant reads from each record of
\* the artifact fields the generator wrote, so that each post line of a
\* prompt built after posts.json was loaded carries the record's title,
\* summary and url.  Fails: the generator writes title and summary, the
\* assistant reads titulo and resumen, and the line carries "undefined".
C9_PromptCarriesTitleAndSummary ==
    (pc = "done" /\ Len(wPrompt) > 0) =>
        /\ Len(wPrompt) = Len(Artifact)
        /\ \A i \in 1..Len(wPrompt) : wPrompt[i] = ExpectedLine(Artifact[i])

\* C10 (P5, zero valid units), as claimed: a run over an existing root with
\* no valid unit, with a writable output path, ends with exit 0 and an output
\* file that holds the empty array.  Fails where a unit is unreadable or
\* malformed (the run aborts, C6 and C7) or holds a non-string title (a
\* record is written, C3).
C10_ZeroValidUnitsWritesEmptyArray ==
    ( /\ pc \in {"done", "threw"}
      /\ rootExists
      /\ err # "EOPEN"
      /\ \A S \in DOMAIN entries : ~ValidUnit(S) )
    => /\ ExitCode = 0
       /\ outFile = File(Stringify(<<>>))

\* C11 (P4, idempotence): when the generator has run to its end twice in
\* succession over an unchanged content tree, the output file of the later
\* run is identical to the output file the earlier run left (prevFile, at
\* the start of the later run): the same records in the same order.
C11_RerunLeavesIdenticalFile ==
    (pc = "done" /\ Len(stdout) >= 2) =>
        /\ prevFile = File(Stringify(posts))
        /\ outFile = prevFile

\* A second run has ended over a tree with two emitted units, enumerated in
\* the reverse of the name order.
C11_Witness ==
    /\ pc = "done"
    /\ Len(stdout) = 2
    /\ Len(posts) = 2
    /\ folders = <<EntryNames[2], EntryNames[1]>>
    /\ outFile = prevFile

\* The units of the tree that the generator's test lets through, in the
\* directory's enumeration order, and the record of each.
EmittedUnit(S) == entries[S].kind = "dir" /\ PassesTest(S)
UnitsInOrder == SelectSeq(listing, EmittedUnit)
RecordOf(S) ==
    [k \in {"title", "summary", "url"} |->
        CASE k = "title" -> Get(FrontMatterOf(S), "title")
          [] k = "summary" -> Get(FrontMatterOf(S), "summary")
          [] OTHER -> ExpectedUrl(S)]
TreeRecords == [k \in 1..Len(UnitsInOrder) |-> RecordOf(UnitsInOrder[k])]

\* The records of the output file as it was before the run.
PrevRecords ==
    IF prevFile.exists /\ Parse(prevFile.bytes).ok THEN Parse(prevFile.bytes).value ELSE <<>>

\* C12 (full overwrite): after a successful run the output file is exactly
\* the serialization of the records of that run, which are determined by
\* the content tree alone; so two runs over one tree leave the same file
\* whatever the file held before, and no record of the previous artifact is
\* in it.
C12_ArtifactIndependentOfPrevious ==
    pc = "done" =>
        /\ posts = TreeRecords
        /\ outFile = File(Stringify(TreeRecords))
        /\ \A i \in 1..Len(Artifact), j \in 1..Len(PrevRecords) : Artifact[i] # PrevRecords[j]

\* A successful run that wrote one record over an earlier artifact holding
\* another record.
C12_Witness ==
    /\ pc = "done"
    /\ Len(PrevRecords) = 1
    /\ Len(Artifact) = 1
    /\ outFile # prevFile
    /\ outFile = File(Stringify(posts))

\* The sub-directories whose index.md was read and parsed.
ParsedUnits == {S \in DOMAIN entries : entries[S].kind = "dir" /\ entries[S].index \in {"nofm", "yaml"}}

SameTitleAndSummary(S1, S2) ==
    /\ Get(FrontMatterOf(S1), "title") = Get(FrontMatterOf(S2), "title")
    /\ Get(FrontMatterOf(S1), "summary") = Get(FrontMatterOf(S2), "summary")

\* C13 (field set, and non-interference of the other front-matter fields):
\* after a successful run every record has exactly the fields title, summary
\* and url, and two units with the same title and the same summary have the
\* same outcome whatever else their front matters hold: both have a record
\* or neither has, and each record is the one made of the unit's title, its
\* summary and its directory name.
C13_OnlyTitleAndSummaryAreRead ==
    pc = "done" =>
        LET art == Artifact IN
          /\ \A i \in 1..Len(art) : DOMAIN art[i] = {"title", "summary", "url"}
          /\ \A S1, S2 \in ParsedUnits :
                SameTitleAndSummary(S1, S2) =>
                  /\ (RecordsIn(art, S1) = {}) <=> (RecordsIn(art, S2) = {})
                  /\ \A i \in RecordsIn(art, S1) : art[i] = RecordOf(S1)
                  /\ \A j \in RecordsIn(art, S2) : art[j] = RecordOf(S2)

\* A successful run over two units with the same title and summary, one of
\* them with `draft: true`, both with a record.
C13_Witness ==
    /\ pc = "done"
    /\ \E S1, S2 \in ParsedUnits :
          /\ S1 # S2
          /\ SameTitleAndSummary(S1, S2)
          /\ "draft" \in DOMAIN FrontMatterOf(S1)
          /\ "draft" \notin DOMAIN FrontMatterOf(S2)
          /\ RecordsFor(S1) # {}
          /\ RecordsFor(S2) # {}

\* S is a plain file directly under the root, or a sub-directory without
\* index.md.
SkippedEntry(S) == entries[S].kind = "file" \/ entries[S].index = "absent"

\* C14 (skipped entries): a run over a tree with a plain file under the root
\* or a sub-directory without index.md, whose other documents can be read
\* and parsed, and whose output path can be opened, ends with exit 0; no
\* skipped entry has a record and every valid unit has its one record.
C14_FilesAndEmptyDirsAreSkipped ==
    ( /\ pc \in {"done", "threw"}
      /\ rootExists
      /\ err # "EOPEN"
      /\ \E S \in DOMAIN entries : SkippedEntry(S)
      /\ \A S \in DOMAIN entries : entries[S].index \notin {"unreadable", "malformed"} )
    => /\ pc = "done"
       /\ ExitCode = 0
       /\ err = "none"
       /\ ArtifactOk
       /\ LET art == Artifact IN
            \A S \in DOMAIN entries :
              /\ SkippedEntry(S) => RecordsIn(art, S) = {}
              /\ ValidUnit(S) => Cardinality(RecordsIn(art, S)) = 1

\* A successful run over a sub-directory without index.md, enumerated
\* first, and a valid unit, whose record was written.
C14_Witness ==
    /\ pc = "done"
    /\ ExitCode = 0
    /\ Len(folders) = 2
    /\ entries[folders[1]].index = "absent"
    /\ ValidUnit(folders[2])
    /\ Len(Artifact) = 1

\* A successful run over a plain file under the root and a valid unit.
C14_WitnessFile ==
    /\ pc = "done"
    /\ \E S \in DOMAIN entries : entries[S].kind = "file"
    /\ Len(Artifact) = 1

\* C15 (unwritable output): when the open of the output path has failed,
\* the process has ended with a non-zero exit status, the success message
\* was not printed, and the output path is as it was.
C15_UnwritableOutputIsFatal ==
    err = "EOPEN" =>
        /\ pc = "threw"
        /\ ExitCode # 0
        /\ stdout = <<>>
        /\ outFile = prevFile

\* The open failed after a record had been collected.
C15_Witness ==
    /\ err = "EOPEN"
    /\ pc = "threw"
    /\ ExitCode = 1
    /\ Len(posts) >= 1
    /\ stdout = <<>>

\* C16 (frame): no step of a run creates, changes or removes the content
\* root or anything under it (its entries, their documents, the order in
\* which it enumerates); the output file is the only thing a run writes.
C16_ContentRootIsReadOnly ==
    [][/\ rootExists' = rootExists
       /\ entries' = entries
       /\ listing' = listing]_vars

\* A run over a non-empty tree has ended after replacing the output file.
C16_Witness ==
    /\ pc = "done"
    /\ rootExists
    /\ Cardinality(DOMAIN entries) = 2
    /\ outFile # prevFile
    /\ outFile = File(Stringify(posts))
    /\ Len(posts) = 2

\* C17 (reported count): a run that ended with exit 0 has printed one
\* count; and whenever a count has been printed, the output file already
\* holds the complete serialization of the run's records and the count is
\* the number of records in it.
C17_CountMatchesArtifact ==
    /\ pc = "done" => Len(stdout) = 1
    /\ stdout # <<>> =>
          /\ pc = "done"
          /\ outFile = File(Stringify(posts))
          /\ ArtifactOk
          /\ stdout[Len(stdout)] = Len(Artifact)

\* A run printed the count 1 after going through two sub-directories.
C17_Witness ==
    /\ pc = "done"
    /\ stdout = <<1>>
    /\ Len(folders) = 2
    /\ Len(Artifact) = 1

\* C18 (write once, after collection): a step changes the output file only
\* when the loop has gone through every sub-directory, and only as a part of
\* the one writeFileSync call (its open, or its write loop); once that call
\* has begun the run never goes back to scanning, so there is no second
\* write and no write between two iterations.
C18_WriteOnceAfterCollection ==
    [][/\ outFile' # outFile =>
             /\ pc \in {"loop", "writing"}
             /\ idx > Len(folders)
             /\ posts' = posts
             /\ pc' \in {"writing", "log"}
       /\ pc \in {"writing", "log", "done", "threw", "killed"} =>
             pc' \notin {"start", "loop"}]_vars

\* A run has ended after scanning two sub-directories and then writing
\* the file.
C18_Witness ==
    /\ pc = "done"
    /\ Len(folders) = 2
    /\ idx = 3
    /\ outFile # prevFile
    /\ Len(Artifact) >= 1

\* The urls of a sequence of records, and of a sequence of directory names.
UrlsOf(rs) == [k \in 1..Len(rs) |-> Get(rs[k], "url")]
UrlsFor(ds) == [k \in 1..Len(ds) |-> ExpectedUrl(ds[k])]

\* C19 (order): the sub-directories are gone through in the directory's
\* enumeration order, and the artifact of a successful run is that
\* enumeration with the entries that yield no record removed: the k-th
\* record is the record of the k-th emitted unit of the enumeration, and
\* nothing is sorted or reordered.
C19_ArtifactFollowsEnumeration ==
    /\ pc \in {"loop", "writing", "log", "done"} =>
          folders = SelectSeq(listing, IsDirectory)
    /\ pc = "done" =>
          LET art == Artifact IN UrlsOf(art) = UrlsFor(UnitsInOrder)

\* A successful run over a directory that enumerates 02-draft before
\* 01-post wrote the two records in that order.
C19_Witness ==
    /\ pc = "done"
    /\ listing = <<EntryNames[2], EntryNames[1]>>
    /\ Len(Artifact) = 2
    /\ Get(Artifact[1], "url") = ExpectedUrl(EntryNames[2])
    /\ Get(Artifact[2], "url") = ExpectedUrl(EntryNames[1])

\* The direct sub-directories of the content root.
SubDirectories == {S \in DOMAIN entries : entries[S].kind = "dir"}

\* No two records of the sequence rs have the same url.
DistinctUrls(rs) == \A i, j \in 1..Len(rs) : i # j => Get(rs[i], "url") # Get(rs[j], "url")

\* C20 (uniqueness): the records collected, and the records of the artifact
\* of a successful run, have pairwise different urls and are no more than
\* the sub-directories of the root; the artifact has at most one record per
\* sub-directory and each of its records is the record of a sub-directory.
C20_AtMostOneRecordPerDirectory ==
    /\ DistinctUrls(posts)
    /\ Len(posts) <= Cardinality(SubDirectories)
    /\ pc = "done" =>
          LET art == Artifact IN
            /\ DistinctUrls(art)
            /\ Len(art) <= Cardinality(SubDirectories)
            /\ \A S \in SubDirectories : Cardinality(RecordsIn(art, S)) <= 1
            /\ \A i \in 1..Len(art) : \E S \in SubDirectories : i \in RecordsIn(art, S)

\* A successful run over two sub-directories with the same title and
\* summary wrote two records, with different urls.
C20_Witness ==
    /\ pc = "done"
    /\ Cardinality(SubDirectories) = 2
    /\ Len(Artifact) = 2
    /\ Get(Artifact[1], "title") = Get(Artifact[2], "title")
    /\ Get(Artifact[1], "summary") = Get(Artifact[2], "summary")
    /\ Get(Artifact[1], "url") # Get(Artifact[2], "url")

\* ------------------------------------------------------------- properties: Blog
\* Two characters are the same letter, whatever their case.
SameLetter(c, d) == (c \in {"a", "A"}) <=> (d \in {"a", "A"})
EqualIgnoringCase(x, y) ==
    Len(x) = Len(y) /\ \A i \in 1..Len(x) : SameLetter(x[i], y[i])
ContainsIgnoringCase(x, sub) ==
    \E k \in 0..(Len(x) - Len(sub)) : \A i \in 1..Len(sub) : SameLetter(x[k + i], sub[i])

\* The entry carries every selected tag, and contains the query when there
\* is one.
CarriesSelectedTags(entry) ==
    \A sel \in filter : \E i \in 1..Len(entry.tags) : EqualIgnoringCase(entry.tags[i], sel)
ContainsQuery(entry) ==
    \/ ContainsIgnoringCase(entry.title, searchQuery)
    \/ (entry.summary.t = "str" /\ ContainsIgnoringCase(entry.summary.v, searchQuery))
    \/ \E i \in 1..Len(entry.tags) : ContainsIgnoringCase(entry.tags[i], searchQuery)
Wanted(entry) == CarriesSelectedTags(entry) /\ (searchQuery # <<>> => ContainsQuery(entry))

\* How many times entry e occurs in the sequence q.
Occurrences(q, e) == Cardinality({i \in 1..Len(q) : q[i] = e})
EntriesOf(q) == {q[i] : i \in 1..Len(q)}

\* C21 (displayed posts): in every state of the Blog component the displayed
\* posts are entries of data, and each entry of data is displayed once when
\* it carries every selected tag and contains the query (both compared
\* without regard to case), and not at all otherwise.
C21_DisplayedPostsAreTheMatches ==
    /\ EntriesOf(blogPosts) \subseteq EntriesOf(blogData)
    /\ \A e \in EntriesOf(blogData) :
          Occurrences(blogPosts, e) = IF Wanted(e) THEN 1 ELSE 0

\* A tag was selected whose case differs from the entry's tag and a query
\* was typed whose case differs from the title: one of two entries is shown.
C21_Witness ==
    /\ filter = {<<"a">>}
    /\ searchQuery = <<"B">>
    /\ Len(blogData) = 2
    /\ Len(blogPosts) = 1
    /\ blogPosts[1].slug = "p1"
    /\ blogLast \in {"toggleTag", "handleSearchInput"}

\* C22 (toggleTag): a toggleTag(t) step adds t to the filter when it was
\* absent and removes it when it was present, and changes the membership of
\* no other tag; toggling a tag twice gives the filter back.
C22_ToggleChangesOneMembership ==
    [][/\ \A i \in 1..Len(tags) :
             ToggleSet(ToggleSet(filter, tags[i]), tags[i]) = filter
       /\ \A i \in 1..Len(tags) :
             toggleTag(tags[i]) =>
               /\ (tags[i] \in filter') <=> (tags[i] \notin filter)
               /\ \A j \in 1..Len(tags) :
                     j # i => ((tags[j] \in filter') <=> (tags[j] \in filter))
               /\ filter' \subseteq filter \cup {tags[i]}]_vars

\* toggleTag has just run, and one of the tags, in upper case, is selected:
\* the entry tagged with it is the one displayed.
C22_Witness ==
    /\ blogLast = "toggleTag"
    /\ filter = {<<"A">>}
    /\ Len(blogPosts) = 1
    /\ Len(blogData) = 2

\* C23 (clearAllFilters): a clearAllFilters step leaves the filter and the
\* search query empty, the sort option and the filter menu as they were,
\* and every entry of data displayed, once.
C23_ClearShowsEverything ==
    [][clearAllFilters =>
         /\ filter' = {}
         /\ searchQuery' = <<>>
         /\ sortBy' = sortBy
         /\ isFilterOpen' = isFilterOpen
         /\ blogData' = blogData
         /\ Len(blogPosts') = Len(blogData)
         /\ \A e \in EntriesOf(blogData) : Occurrences(blogPosts', e) = 1]_vars

\* clearAllFilters has run with the filter menu open and a sort by title
\* chosen: both entries are displayed.
C23_Witness ==
    /\ blogLast = "clearAllFilters"
    /\ filter = {}
    /\ searchQuery = <<>>
    /\ isFilterOpen
    /\ sortBy = "title-desc"
    /\ Len(blogPosts) = 2

\* C24 (sort): a change of the sort option leaves the filter, the query and
\* the set of displayed posts as they were (each entry displayed as many
\* times as before), and no step changes the array data.
C24_SortKeepsTheDisplayedSet ==
    [][/\ blogData' = blogData
       /\ \A value \in SortOptions :
             handleSortChange(value) =>
               /\ filter' = filter
               /\ searchQuery' = searchQuery
               /\ \A e \in EntriesOf(blogData) :
                     Occurrences(blogPosts', e) = Occurrences(blogPosts, e)]_vars

\* A change of the sort option has put two displayed posts in an order that
\* is neither the order of data nor the initial order by date.
C24_Witness ==
    /\ blogLast = "handleSortChange"
    /\ sortBy = "title-asc"
    /\ Len(blogPosts) = 2
    /\ blogPosts # blogData
    /\ blogPosts # Effect(blogData, filter, searchQuery, "date-desc")

\* ------------------------------------------------------------- properties: assistant
\* A field that is empty or holds white space only.
Blank(s) == \A i \in 1..Len(s) : s[i] = " "

\* C25 (empty fields): a click on Search while the API key or the question
\* is empty or white space only sends no request to the completion API and
\* leaves the response box as it was (the handler alerts and returns).
C25_BlankFieldsSendNothing ==
    [][ (AskClick /\ (Blank(apiKey) \/ Blank(userQuery)))
        => /\ wLast' = "alert"
           /\ wSent' = wSent
           /\ nFetch' = nFetch
           /\ nBody' = nBody
           /\ wPrompt' = wPrompt
           /\ responseBox' = responseBox ]_vars

\* Search has just been clicked with a key of white space only and a
\* question that is not blank, while the box showed an earlier outcome: the
\* handler alerted, and the outcome is still there.
C25_Witness ==
    /\ wLast = "alert"
    /\ apiKey # <<>> /\ Blank(apiKey)
    /\ ~Blank(userQuery)
    /\ wSent = 1
    /\ nFetch = 0 /\ nBody = 0
    /\ responseBox \notin {<<>>, Thinking}

\* C26 (close), as claimed: after a click on the close button the response
\* box is empty, and stays empty until the next click on Search, also when
\* a request was in flight when the modal was closed.  Fails: the handler of
\* the request in flight goes on when the request settles, and writes its
\* outcome into the box of the closed modal.
C26_BoxStaysEmptyAfterClose ==
    wLast = "close" => responseBox = <<>>

\* C27 (load race), as claimed: the prompt of every request sent lists all
\* records of posts.json, however the click on Search and the load of
\* posts.json interleave.  Fails: a click before the load has settled
\* builds the prompt from `posts = []`.
C27_PromptListsAllRecords ==
    wSent > 0 =>
        LET art == Artifact
        IN /\ Len(wPrompt) = Len(art)
           /\ \A i \in 1..Len(art) : wPrompt[i] = PostLine(art[i])

\* The texts that replace Thinking: the completion's content, "No answer
\* received.", or an error message.
Replaced(text) ==
    /\ text # <<>>
    /\ \/ text = <<"answer">>
       \/ text = <<"No answer received.">>
       \/ Head(text) \in {"Error ", "Error calling API: "}

\* C28 (outcome): a click on Search with a key and a question that are not
\* blank writes Thinking into the response box; a handler that ends, on a
\* success, on a response that is not ok (its body the API's error object or
\* not), or on a network failure, has written the answer, "No answer
\* received." or an error message; and, the requests settling, Thinking
\* is always replaced by one of these.
C28_ThinkingIsReplaced ==
    /\ [][ (AskClick /\ ~Blank(apiKey) /\ ~Blank(userQuery))
           => (responseBox' = Thinking /\ nFetch' = nFetch + 1) ]_vars
    /\ [][ (nFetch' + nBody' < nFetch + nBody) => Replaced(responseBox') ]_vars
    /\ (responseBox = Thinking) ~> Replaced(responseBox)

\* The one request sent has settled on a response that is not ok and whose
\* body is not JSON, and the box shows the error message of the catch.
C28_Witness ==
    /\ wLast = "ask"
    /\ wSent = 1
    /\ nFetch = 0 /\ nBody = 0
    /\ responseBox = <<"Error calling API: ", "Unexpected token">>

====
